---- MODULE Spec2Model ----
(***************************************************************************)
(* Model of the crypto calendar bot's aggregation engine:                  *)
(*   internal/calendar/aggregator.go  (Aggregator, deduplicateCrossSource) *)
(*   internal/calendar (window selectors: EventsTomorrow, ...)             *)
(*   cmd/bot/main.go   (checkDigest, checkAlerts24h, checkAlerts2h)        *)
(*   internal/scanner  (makeEventID, deduplicateEvents, event building)    *)
(*   data/events.json  (loadCache, saveCache and the file between them)    *)
(*                                                                         *)
(* Time is counted in minutes since a Monday 00:00 UTC.  An event record   *)
(* keeps the fields the engine decides on (id, type, source, token, date   *)
(* and the three sent flags); title, url and details are display strings   *)
(* that no modelled operation reads.                                       *)
(***************************************************************************)
EXTENDS Integers, Sequences, FiniteSets, TLC

\* ------------------------------------------------------------------ time

Hour == 60
Day == 24 * Hour

\* cutoff := time.Now().UTC().Add(-48 * time.Hour)
RetentionHours == 48

\* date.UTC().Format("20060102"): the UTC calendar day of an instant.
DayStamp(date) == date \div Day

\* time.Weekday of an instant, as the lower-case names checkDigest switches on.
WeekdayNames == <<"monday", "tuesday", "wednesday", "thursday", "friday",
                  "saturday", "sunday">>
Weekday(t) == WeekdayNames[((t \div Day) % 7) + 1]
HourOf(t) == (t % Day) \div Hour

\* ----------------------------------------------------------- the universe

\* Monday 09:00 UTC of the second week: the process starts here.
T0 == 7 * Day + 9 * Hour

\* The instants at which the clock is observed (time only moves forward).
Instants == {T0, T0 + 22 * Hour + 20, T0 + 71 * Hour, T0 + 73 * Hour}

\* The event date the feeds report: Tuesday 09:00.
D1 == T0 + 24 * Hour
Dates == {D1}

\* The configured adapters, in NewAggregator's order.
Scanners == <<"binance", "bybit">>
NumScanners == Len(Scanners)
Tokens == {"FOO"}
Types == {"listing", "launchpool"}

\* The longest list one scan returns.
MaxScan == 1
\* Deliveries of one milestone of one real-world event that are counted.
MaxSends == 2

Milestones == {"digest", "24h", "2h"}

\* ------------------------------------------------------------- model.Event

\* strings.ToUpper on the tickers of the universe.
ToUpper(s) == CASE s = "foo" -> "FOO"
                [] OTHER -> s

\* An id built from the ticker as the feed spells it.
makeEventID_AsGiven(source, token, date) == <<source, token, DayStamp(date)>>

\* scanner.makeEventID: "source:TOKEN:YYYYMMDD".
makeEventID(source, token, date) == <<source, ToUpper(token), DayStamp(date)>>

\* An event candidate as a scanner builds it: Token is strings.ToUpper(token)
\* and the flags are Go's zero value.
NewEvent(source, token, type, date) ==
    [id |-> makeEventID(source, token, date), type |-> type, source |-> source,
     token |-> ToUpper(token), date |-> date,
     sent_digest |-> FALSE, sent_24h |-> FALSE, sent_2h |-> FALSE]

Candidates(source) ==
    {NewEvent(source, tok, ty, d) : tok \in Tokens, ty \in Types, d \in Dates}

RECURSIVE SeqsUpTo(_, _)
SeqsUpTo(S, n) ==
    IF n = 0 THEN {<<>>}
    ELSE LET shorter == SeqsUpTo(S, n - 1)
         IN shorter \cup {Append(s, x) : s \in {t \in shorter : Len(t) = n - 1}, x \in S}

\* scanner.deduplicateEvents: of the events under one id the first is kept.
RECURSIVE deduplicateEvents(_)
deduplicateEvents(events) ==
    IF events = <<>> THEN <<>>
    ELSE LET rest == deduplicateEvents(SubSeq(events, 1, Len(events) - 1))
             e == events[Len(events)]
         IN IF \E i \in 1..Len(rest) : rest[i].id = e.id THEN rest
            ELSE Append(rest, e)

\* What one Scan call can return as its event list: BinanceScanner.Scan and
\* BybitScanner.Scan end with deduplicateEvents.
ScanResults(source) ==
    {deduplicateEvents(evs) : evs \in SeqsUpTo(Candidates(source), MaxScan)}

Range(s) == {s[i] : i \in 1..Len(s)}

\* ------------------------------------------------------------- reconciler

\* A slip in the ranking table: okx and tokenunlocks swapped.
sourcePriority_Swapped(source) ==
    CASE source = "binance" -> 1
      [] source = "bybit" -> 2
      [] source = "okx" -> 4
      [] source = "tokenunlocks" -> 3
      [] source = "airdrops" -> 5
      [] OTHER -> 99

\* A ranking that does not tell the sources apart.
sourcePriority_Flat(source) == 1

\* sourcePriority returns a lower number for higher-priority sources.
sourcePriority(source) ==
    CASE source = "binance" -> 1
      [] source = "bybit" -> 2
      [] source = "okx" -> 3
      [] source = "tokenunlocks" -> 4
      [] source = "airdrops" -> 5
      [] OTHER -> 99

\* A slip in the key: the full timestamp instead of its UTC day.
KeyOf_ExactDate(e) == <<e.token, e.date, e.type>>

\* The cross-source key: token, UTC day, type.
KeyOf(e) == <<e.token, DayStamp(e.date), e.type>>

\* An order that puts each new key in front.
RECURSIVE KeyOrder_NewestFirst(_)
KeyOrder_NewestFirst(events) ==
    IF events = <<>> THEN <<>>
    ELSE LET n == Len(events)
             before == KeyOrder_NewestFirst(SubSeq(events, 1, n - 1))
             k == KeyOf(events[n])
         IN IF k \in Range(before) THEN before ELSE <<k>> \o before

\* order: the keys in order of first appearance.
RECURSIVE KeyOrder(_)
KeyOrder(events) ==
    IF events = <<>> THEN <<>>
    ELSE LET n == Len(events)
             before == KeyOrder(SubSeq(events, 1, n - 1))
             k == KeyOf(events[n])
         IN IF k \in Range(before) THEN before ELSE Append(before, k)

\* groups[k]: the events of key k in input order.
GroupOf(events, k) == SelectSeq(events, LAMBDA e : KeyOf(e) = k)

\* A comparison that lets the later member take a tie.
RECURSIVE PickWinner_LastTie(_)
PickWinner_LastTie(group) ==
    IF Len(group) = 1 THEN group[1]
    ELSE LET n == Len(group)
             winner == PickWinner_LastTie(SubSeq(group, 1, n - 1))
         IN IF sourcePriority(group[n].source) <= sourcePriority(winner.source)
            THEN group[n] ELSE winner

\* Pick winner: lowest priority number; the earlier member keeps a tie.
RECURSIVE PickWinner(_)
PickWinner(group) ==
    IF Len(group) = 1 THEN group[1]
    ELSE LET n == Len(group)
             winner == PickWinner(SubSeq(group, 1, n - 1))
         IN IF sourcePriority(group[n].source) < sourcePriority(winner.source)
            THEN group[n] ELSE winner

\* A slip in the merge: the 2h flag of the other members is forgotten.
MergeFlags_No2h(winner, group) ==
    [winner EXCEPT
       !.sent_digest = @ \/ \E i \in 1..Len(group) : group[i].sent_digest,
       !.sent_24h = @ \/ \E i \in 1..Len(group) : group[i].sent_24h]

\* Merge sent flags from all group members.
MergeFlags(winner, group) ==
    [winner EXCEPT
       !.sent_digest = @ \/ \E i \in 1..Len(group) : group[i].sent_digest,
       !.sent_24h = @ \/ \E i \in 1..Len(group) : group[i].sent_24h,
       !.sent_2h = @ \/ \E i \in 1..Len(group) : group[i].sent_2h]

\* A merge that also takes the date of the group's first member.
ReconcileGroup_FirstDate(group) ==
    [MergeFlags(PickWinner(group), group) EXCEPT !.date = group[1].date]

\* One group of the output loop: a single member is appended as it is,
\* otherwise the winner with the merged flags.
ReconcileGroup(group) ==
    IF Len(group) = 1 THEN group[1]
    ELSE MergeFlags(PickWinner(group), group)

deduplicateCrossSource(events) ==
    LET order == KeyOrder(events)
    IN [i \in 1..Len(order) |-> ReconcileGroup(GroupOf(events, order[i]))]

\* ------------------------------------------------------------ cache store

\* An upsert that stores the fresh record as scanned, flags included.
Upsert_FreshFlags(c, e) ==
    [id \in DOMAIN c \cup {e.id} |-> IF id = e.id THEN e ELSE c[id]]

\* Refresh, the upsert of one fresh record: an existing entry with the same
\* id keeps its three flags, the other fields are the fresh record's.
Upsert(c, e) ==
    LET stored == IF e.id \in DOMAIN c
                  THEN [e EXCEPT !.sent_digest = c[e.id].sent_digest,
                                 !.sent_24h = c[e.id].sent_24h,
                                 !.sent_2h = c[e.id].sent_2h]
                  ELSE e
    IN [id \in DOMAIN c \cup {e.id} |-> IF id = e.id THEN stored ELSE c[id]]

\* for _, e := range fresh { ... a.cache[e.ID] = e }
RECURSIVE MergeFresh(_, _)
MergeFresh(c, winners) ==
    IF winners = <<>> THEN c
    ELSE MergeFresh(Upsert(c, Head(winners)), Tail(winners))

\* A merge that leaves the other sources' entries in place.
DeleteLosersOf_Keep(c, winner) == c

\* The inner loop of the loser deletion for one winner: every other id with
\* the winner's token, UTC day and type is deleted.
DeleteLosersOf(c, winner) ==
    LET keep == {id \in DOMAIN c :
                    \/ id = winner.id
                    \/ ~ /\ c[id].token = winner.token
                         /\ DayStamp(c[id].date) = DayStamp(winner.date)
                         /\ c[id].type = winner.type}
    IN [id \in keep |-> c[id]]

\* for _, winner := range fresh { ... delete(a.cache, id) }
RECURSIVE DeleteLosers(_, _)
DeleteLosers(c, winners) ==
    IF winners = <<>> THEN c
    ELSE DeleteLosers(DeleteLosersOf(c, Head(winners)), Tail(winners))

\* An eviction that keeps records for three days.
Evict_ThreeDays(c, t) ==
    LET cutoff == t - 3 * Day
        keep == {id \in DOMAIN c : ~(c[id].date < cutoff)}
    IN [id \in keep |-> c[id]]

\* Eviction: e.Date.Before(cutoff), cutoff 48 h before t.
Evict(c, t) ==
    LET cutoff == t - RetentionHours * Hour
        keep == {id \in DOMAIN c : ~(c[id].date < cutoff)}
    IN [id \in keep |-> c[id]]

\* A merge that rebuilds the cache from the batch alone.
MergeBatch_Replace(c, collected, t) ==
    Evict(MergeFresh([id \in {} |-> 0], deduplicateCrossSource(collected)), t)

\* The critical section of Refresh (lines 89-128) on the collected batch.
MergeBatch(c, collected, t) ==
    LET winners == deduplicateCrossSource(collected)
    IN Evict(DeleteLosers(MergeFresh(c, winners), winners), t)

\* allEvents: the values of the map, in any iteration order.
Bijections(n, S) ==
    {p \in [1..n -> S] : \A i, j \in 1..n : p[i] = p[j] => i = j}
AllEventsOrders(c) ==
    LET n == Cardinality(DOMAIN c)
    IN {[i \in 1..n |-> c[p[i]]] : p \in Bijections(n, DOMAIN c)}

\* An Events() that hands out the cache as it is.
EventsViews_Raw(c) == AllEventsOrders(c)

\* Events(): the reconciled view of the cache, for one iteration order.
EventsViews(c) == {deduplicateCrossSource(evs) : evs \in AllEventsOrders(c)}

\* A MarkSent24h that stores a record for an id the cache does not have.
MarkSent24h_Create(c, id) ==
    [i \in DOMAIN c \cup {id} |->
        IF i = id
        THEN [(IF id \in DOMAIN c THEN c[id]
               ELSE NewEvent(id[1], id[2], "listing", D1))
              EXCEPT !.sent_24h = TRUE]
        ELSE c[i]]

\* A MarkSentDigest over a single status field: the last milestone wins.
MarkSentDigest_Enum(c, id) ==
    IF id \in DOMAIN c
    THEN [c EXCEPT ![id].sent_digest = TRUE, ![id].sent_24h = FALSE,
                   ![id].sent_2h = FALSE]
    ELSE c

\* MarkSentDigest / MarkSent24h / MarkSent2h: a no-op on an absent id.
MarkSentDigest(c, id) ==
    IF id \in DOMAIN c THEN [c EXCEPT ![id].sent_digest = TRUE] ELSE c
MarkSent24h(c, id) ==
    IF id \in DOMAIN c THEN [c EXCEPT ![id].sent_24h = TRUE] ELSE c
MarkSent2h(c, id) ==
    IF id \in DOMAIN c THEN [c EXCEPT ![id].sent_2h = TRUE] ELSE c

\* -------------------------------------------------------- window selectors

\* A sortByDate that returns the list as it came.
sortByDate_Unsorted(events) == events

\* sortByDate: ascending date (an insertion sort; sort.Slice promises no
\* order among equal dates, and no modelled caller depends on one).
RECURSIVE sortByDate(_)
SortInsert(sorted, e) ==
    LET k == Cardinality({i \in 1..Len(sorted) : ~(e.date < sorted[i].date)})
    IN SubSeq(sorted, 1, k) \o <<e>> \o SubSeq(sorted, k + 1, Len(sorted))
sortByDate(events) ==
    IF events = <<>> THEN <<>>
    ELSE SortInsert(sortByDate(SubSeq(events, 1, Len(events) - 1)),
                    events[Len(events)])

\* filterAndSort: e.Date.After(from) && e.Date.Before(to).
filterAndSort(events, from, to) ==
    sortByDate(SelectSeq(events, LAMBDA e : e.date > from /\ e.date < to))

\* EventsTomorrow: the 24h alert, 20 to 28 hours ahead, not yet sent.
EventsTomorrow(events, t) ==
    sortByDate(SelectSeq(events, LAMBDA e :
        ~e.sent_24h /\ e.date > t + 20 * Hour /\ e.date < t + 28 * Hour))

\* A 2h selection that does not look at sent_2h.
EventsIn2Hours_NoGuard(events, t) ==
    sortByDate(SelectSeq(events, LAMBDA e :
        /\ ~(e.type # "listing" /\ e.type # "airdrop")
        /\ e.date > t + 90 /\ e.date < t + 150))

\* EventsIn2Hours: 90 to 150 minutes ahead, listings and airdrops only.
EventsIn2Hours(events, t) ==
    sortByDate(SelectSeq(events, LAMBDA e :
        /\ ~(e.type # "listing" /\ e.type # "airdrop")
        /\ ~e.sent_2h /\ e.date > t + 90 /\ e.date < t + 150))

\* EventsForDigest: the last 14 days and the next 7, not yet in a digest.
EventsForDigest(events, t) ==
    SelectSeq(filterAndSort(events, t - 14 * Day, t + 7 * Day),
              LAMBDA e : ~e.sent_digest)

\* EventsForWeek: the last 14 days and the next 7.
EventsForWeek(events, t) == filterAndSort(events, t - 14 * Day, t + 7 * Day)

\* time.Date(y, m, d, 0, 0, 0, 0, time.UTC): 00:00 UTC of the day of t.
StartOfDay(t) == (t \div Day) * Day

\* EventsToday: from 00:00 UTC today, 24 hours.
EventsToday(events, t) ==
    filterAndSort(events, StartOfDay(t), StartOfDay(t) + 24 * Hour)

\* EventsTomorrowAll: from 00:00 UTC of the day of now + 24 h, 24 hours.
EventsTomorrowAll(events, t) ==
    filterAndSort(events, StartOfDay(t + 24 * Hour),
                  StartOfDay(t + 24 * Hour) + 24 * Hour)

\* EventsUpcoming: the given type, after now and before now + 30 days.
EventsUpcoming(events, evType, t) ==
    sortByDate(SelectSeq(events, LAMBDA e :
        e.type = evType /\ e.date > t /\ e.date < t + 30 * Day))

\* ------------------------------------------------------------- cache file

\* time.Time's MarshalJSON and UnmarshalJSON: the RFC 3339 text of an instant,
\* here its day, hour and minute, and the instant such a text denotes.
FormatTime(t) == <<t \div Day, (t % Day) \div Hour, t % Hour>>
ParseTime(text) == text[1] * Day + text[2] * Hour + text[3]

\* An encoder that leaves the last flag out of the object.
MarshalEvent_NoSent2h(e) ==
    [id |-> e.id, type |-> e.type, source |-> e.source, token |-> e.token,
     date |-> FormatTime(e.date),
     sent_digest |-> e.sent_digest, sent_24h |-> e.sent_24h]

\* json.Marshal of a model.Event: one member per json tag.
MarshalEvent(e) ==
    [id |-> e.id, type |-> e.type, source |-> e.source, token |-> e.token,
     date |-> FormatTime(e.date),
     sent_digest |-> e.sent_digest, sent_24h |-> e.sent_24h,
     sent_2h |-> e.sent_2h]

\* json.Unmarshal into a model.Event: a member the object lacks leaves the
\* field at Go's zero value.
UnmarshalEvent(o) ==
    [id |-> o.id, type |-> o.type, source |-> o.source, token |-> o.token,
     date |-> ParseTime(o.date),
     sent_digest |-> IF "sent_digest" \in DOMAIN o THEN o.sent_digest ELSE FALSE,
     sent_24h |-> IF "sent_24h" \in DOMAIN o THEN o.sent_24h ELSE FALSE,
     sent_2h |-> IF "sent_2h" \in DOMAIN o THEN o.sent_2h ELSE FALSE]

\* The file: missing, a JSON array of event objects, or bytes that do not
\* parse.  objects are the event objects written into it; the order of the
\* array is that of a map iteration and is left out.
NoFile == [state |-> "missing", objects |-> {}]
JsonFile(events) == [state |-> "json", objects |-> {MarshalEvent(e) : e \in events}]

\* What a write can come to: done; refused before the file is opened; or cut
\* short after os.WriteFile truncated the file.
WriteOutcomes == {"ok", "denied", "cut"}

\* A saveCache that never reaches the disk.
saveCache_Skip(st, c, w) == st

\* A saveCache that adds the current entries to those already in the file.
saveCache_Merge(st, c, w) ==
    CASE w = "ok" -> [state |-> "json",
                      objects |-> (IF st.state = "json" THEN st.objects ELSE {})
                                  \cup {MarshalEvent(c[id]) : id \in DOMAIN c}]
      [] w = "cut" -> [state |-> "corrupt",
                       objects |-> {MarshalEvent(c[id]) : id \in DOMAIN c}]
      [] OTHER -> st

\* saveCache: json.MarshalIndent(a.allEvents()) and os.WriteFile, an error
\* being logged and nothing else.  st is the file before the call and w what
\* the write comes to.
saveCache(st, c, w) ==
    CASE w = "ok" -> [state |-> "json",
                      objects |-> {MarshalEvent(c[id]) : id \in DOMAIN c}]
      [] w = "cut" -> [state |-> "corrupt",
                       objects |-> {MarshalEvent(c[id]) : id \in DOMAIN c}]
      [] OTHER -> st

\* The events of a JSON array, in the order of the file.
RECURSIVE Unmarshal(_)
Unmarshal(objects) ==
    IF objects = {} THEN <<>>
    ELSE LET o == CHOOSE x \in objects : TRUE
         IN <<UnmarshalEvent(o)>> \o Unmarshal(objects \ {o})

\* loadCache: for _, e := range events { a.cache[e.ID] = e }
RECURSIVE loadCache(_, _)
loadCache(c, events) ==
    IF events = <<>> THEN c
    ELSE loadCache([id \in DOMAIN c \cup {Head(events).id} |->
                       IF id = Head(events).id THEN Head(events) ELSE c[id]],
                   Tail(events))

\* A start that keeps whatever objects of an unparsable file can be read.
ReadCache_Partial(st) ==
    IF st.state = "missing" THEN [id \in {} |-> 0]
    ELSE loadCache([id \in {} |-> 0], Unmarshal(st.objects))

\* NewAggregator's a.loadCache(): a file that is missing or does not parse
\* leaves the cache as make() built it.
ReadCache(st) ==
    IF st.state = "json" THEN loadCache([id \in {} |-> 0], Unmarshal(st.objects))
    ELSE [id \in {} |-> 0]

\* ------------------------------------------------------------------ state

VARIABLES
    now,        \* time.Now().UTC(), in minutes
    cache,      \* Aggregator.cache: id -> event
    delivered,  \* the notification sink: successful sends per (key, milestone)
    marked,     \* the (id, milestone) pairs a MarkSent call has set in the cache
    rpc,        \* where a Refresh in flight stands: idle, collect, merge
    scan,       \* the worker goroutine of each adapter and what its Scan returned
    ch,         \* the result channel of the Refresh in flight
    fresh,      \* the batch the Refresh in flight has received so far
    input,      \* the argument of a reconciliation pass
    output,     \* its result
    store,      \* data/events.json, the file behind a.cachePath
    mu,         \* Aggregator.mu: 0 when free, else the goroutine holding it
    proc,       \* the goroutines calling the Aggregator and where each stands
    serial      \* the cache had every call run alone, in the order of the locks

\* The variables only concurrent callers move.
conc == <<mu, proc, serial>>

vars == <<now, cache, delivered, marked, rpc, scan, ch, fresh, input, output,
          store, conc>>

Keys == {<<tok, DayStamp(d), ty>> : tok \in Tokens, d \in Dates, ty \in Types}

EmptyCache == [id \in {} |-> 0]
IdleScan ==
    [i \in 1..NumScanners |->
        [st |-> "idle", evs |-> <<>>, err |-> FALSE, expired |-> FALSE]]

\* One caller at a time: the mutex is free and nothing is in flight.
NoCallers == mu = 0 /\ proc = <<>> /\ serial = EmptyCache

\* NewAggregator on a first start: no cache file, every adapter configured.
InitAggregator ==
    /\ now = T0
    /\ cache = EmptyCache
    /\ delivered = [k \in Keys, m \in Milestones |-> 0]
    /\ marked = {}
    /\ rpc = "idle"
    /\ scan = IdleScan
    /\ ch = <<>>
    /\ fresh = <<>>
    /\ store = NoFile
    /\ NoCallers

\* No reconciliation pass under observation.
NotRun == [done |-> FALSE, events |-> <<>>]
NoPass == input = <<>> /\ output = NotRun

\* ------------------------------------------------------------- collector

\* A worker that passes the events on whatever the error.
WorkerResult_KeepEvents(evs, err) == evs

\* The worker goroutine: a scan that returned an error contributes nil.
WorkerResult(evs, err) == IF err THEN <<>> ELSE evs

\* fresh = append(fresh, r.events...) over the results in arrival order.
RECURSIVE Collect(_, _)
Collect(results, order) ==
    IF order = <<>> THEN <<>>
    ELSE results[Head(order)] \o Collect(results, Tail(order))

\* What the adapters may contribute to one Refresh: a list each, the empty
\* one for an adapter that failed.
Contributions ==
    {r \in [1..NumScanners -> UNION {ScanResults(Scanners[i]) : i \in 1..NumScanners}] :
        \A i \in 1..NumScanners : r[i] \in ScanResults(Scanners[i])}

\* ------------------------------------------------- the aggregator at work

\* Time passes between operations.
Tick ==
    /\ \E t \in Instants : t > now /\ now' = t
    /\ UNCHANGED <<cache, delivered, marked, rpc, scan, ch, fresh, input, output, store, conc>>

\* Aggregator.Refresh, start to return.  The collection phase touches only
\* variables local to the call, so the call acts on the cache in one step,
\* its critical section, with the batch its workers happened to deliver.
\* The disk takes every write here.
Refresh ==
    /\ rpc = "idle"
    /\ \E results \in Contributions, order \in Bijections(NumScanners, 1..NumScanners) :
          cache' = MergeBatch(cache, Collect(results, order), now)
    /\ store' = saveCache(store, cache', "ok")
    /\ UNCHANGED <<now, delivered, marked, rpc, scan, ch, fresh, input, output, conc>>

\* The sink after the sends of one cycle: ok are the positions delivered.
Count(d, events, ok, m) ==
    [k \in Keys, m2 \in Milestones |->
        IF m2 = m /\ \E i \in ok : KeyOf(events[i]) = k
        THEN d[k, m2] + 1 ELSE d[k, m2]]

\* The MarkSent calls of one cycle: the ids of the records delivered.
Marks(events, ok, m) == {<<events[i].id, m>> : i \in ok}

\* Positions whose delivery is still counted (the sink's counter is capped).
Sendable(events, m) ==
    {i \in 1..Len(events) : delivered[KeyOf(events[i]), m] < MaxSends}

\* What a run keeps of its history: the sink's counters when sink is set,
\* the MarkSent calls when marks is set.
Observe(sink, marks, events, ok, m) ==
    /\ delivered' = IF sink THEN Count(delivered, events, ok, m) ELSE delivered
    /\ marked' = IF marks THEN marked \cup Marks(events, ok, m) ELSE marked

\* schedule.digest_weekday and schedule.digest_time_utc of config.yaml.
DigestWeekday == "monday"
DigestTimeUTC == <<9, 0>>

\* checkDigest's switch: an unknown weekday means Monday.
WantDay(weekday) ==
    IF weekday \in {"monday", "tuesday", "wednesday", "thursday", "friday"}
    THEN weekday ELSE "monday"

\* A digest loop that stops after the first selected record.
DigestLoop_FirstOnly(c, events) ==
    IF events = <<>> THEN c ELSE MarkSentDigest(c, Head(events).id)

RECURSIVE DigestLoop(_, _)
DigestLoop(c, events) ==
    IF events = <<>> THEN c
    ELSE DigestLoop(MarkSentDigest(c, Head(events).id), Tail(events))

\* checkDigest: one message for the whole selection; on success every
\* selected record is marked.
DigestCycle(sink, marks) ==
    /\ Weekday(now) = WantDay(DigestWeekday)
    /\ HourOf(now) = DigestTimeUTC[1]
    /\ \E view \in EventsViews(cache), sent \in BOOLEAN :
          LET events == EventsForDigest(view, now)
              ok == IF sent THEN 1..Len(events) ELSE {}
          IN /\ sent => Sendable(events, "digest") = 1..Len(events)
             /\ cache' = IF sent THEN DigestLoop(cache, events) ELSE cache
             /\ store' = IF ok = {} THEN store ELSE saveCache(store, cache', "ok")
             /\ Observe(sink, marks, events, ok, "digest")
    /\ UNCHANGED <<now, rpc, scan, ch, fresh, input, output, conc>>

\* A 24h loop that marks every selected record, delivered or not.
RECURSIVE Alerts24hLoop_MarkAll(_, _, _, _)
Alerts24hLoop_MarkAll(c, events, i, ok) ==
    IF i > Len(events) THEN c
    ELSE Alerts24hLoop_MarkAll(MarkSent24h(c, events[i].id), events, i + 1, ok)

RECURSIVE Alerts24hLoop(_, _, _, _)
Alerts24hLoop(c, events, i, ok) ==
    IF i > Len(events) THEN c
    ELSE Alerts24hLoop(IF i \in ok THEN MarkSent24h(c, events[i].id) ELSE c,
                       events, i + 1, ok)

\* checkAlerts24h: each record is sent on its own and marked when its send
\* succeeded.
Alerts24hCycle(sink, marks) ==
    /\ \E view \in EventsViews(cache) :
          LET events == EventsTomorrow(view, now)
          IN \E ok \in SUBSET Sendable(events, "24h") :
                /\ cache' = Alerts24hLoop(cache, events, 1, ok)
                /\ store' = IF ok = {} THEN store ELSE saveCache(store, cache', "ok")
                /\ Observe(sink, marks, events, ok, "24h")
    /\ UNCHANGED <<now, rpc, scan, ch, fresh, input, output, conc>>

RECURSIVE Alerts2hLoop(_, _, _, _)
Alerts2hLoop(c, events, i, ok) ==
    IF i > Len(events) THEN c
    ELSE Alerts2hLoop(IF i \in ok THEN MarkSent2h(c, events[i].id) ELSE c,
                      events, i + 1, ok)

\* checkAlerts2h: as checkAlerts24h, over the 2h selection.
Alerts2hCycle(sink, marks) ==
    /\ \E view \in EventsViews(cache) :
          LET events == EventsIn2Hours(view, now)
          IN \E ok \in SUBSET Sendable(events, "2h") :
                /\ cache' = Alerts2hLoop(cache, events, 1, ok)
                /\ store' = IF ok = {} THEN store ELSE saveCache(store, cache', "ok")
                /\ Observe(sink, marks, events, ok, "2h")
    /\ UNCHANGED <<now, rpc, scan, ch, fresh, input, output, conc>>

checkDigest == DigestCycle(FALSE, FALSE)
checkAlerts24h == Alerts24hCycle(FALSE, FALSE)
checkAlerts2h == Alerts2hCycle(FALSE, FALSE)

Init == InitAggregator /\ NoPass

\* The scheduler of cmd/bot/main.go and the /refresh command around one
\* Aggregator.
Next ==
    \/ Tick
    \/ Refresh
    \/ checkDigest
    \/ checkAlerts24h
    \/ checkAlerts2h

Spec == Init /\ [][Next]_vars

\* The same system with the notification sink observed: every successful
\* tg.Send is counted per real-world event and milestone.
SinkNext ==
    \/ Tick
    \/ Refresh
    \/ DigestCycle(TRUE, FALSE)
    \/ Alerts24hCycle(TRUE, FALSE)
    \/ Alerts2hCycle(TRUE, FALSE)

SinkSpec == Init /\ [][SinkNext]_vars

\* The same system with the MarkSent calls remembered.
MarkNext ==
    \/ Tick
    \/ Refresh
    \/ DigestCycle(FALSE, TRUE)
    \/ Alerts24hCycle(FALSE, TRUE)
    \/ Alerts2hCycle(FALSE, TRUE)

MarkSpec == Init /\ [][MarkNext]_vars

\* ---------------------------------------------- Refresh, goroutine by goroutine

\* Refresh is called: one worker goroutine per adapter, each with its own
\* 20 s sub-deadline, and a channel buffered for all of them.
RefreshStart ==
    /\ rpc = "idle"
    /\ rpc' = "collect"
    /\ scan' = [i \in 1..NumScanners |->
                  [st |-> "running", evs |-> <<>>, err |-> FALSE, expired |-> FALSE]]
    /\ ch' = <<>>
    /\ fresh' = <<>>
    /\ UNCHANGED <<now, cache, delivered, marked, input, output, store, conc>>

\* context.WithTimeout(ctx, 20*time.Second): the sub-deadline of worker i fires
\* while its Scan is still running.  Nothing in the worker waits on it.
DeadlineFires(i) ==
    /\ scan[i].st = "running"
    /\ ~scan[i].expired
    /\ scan' = [scan EXCEPT ![i].expired = TRUE]
    /\ UNCHANGED <<now, cache, delivered, marked, rpc, ch, fresh, input, output, store, conc>>

\* s.Scan returns a list and an error, before or after the sub-deadline; the
\* worker sends its result on the buffered channel (capacity
\* len(a.scanners), so the send never blocks).
ScanReturns(i) ==
    /\ scan[i].st = "running"
    /\ \E evs \in ScanResults(Scanners[i]), err \in BOOLEAN :
          /\ scan' = [scan EXCEPT ![i].st = "sent", ![i].evs = evs, ![i].err = err]
          /\ ch' = Append(ch, WorkerResult(evs, err))
    /\ UNCHANGED <<now, cache, delivered, marked, rpc, fresh, input, output, store, conc>>

\* An adapter that ignores the cancellation of its context: its Scan never
\* returns, and the worker never reaches its send.
ScanHangs(i) ==
    /\ scan[i].st = "running"
    /\ scan[i].expired
    /\ scan' = [scan EXCEPT ![i].st = "hung"]
    /\ UNCHANGED <<now, cache, delivered, marked, rpc, ch, fresh, input, output, store, conc>>

\* A collecting loop that stops at the first result.
LastReceive_First(c, s) == TRUE

\* for range a.scanners { r := <-ch }: the loop receives len(a.scanners)
\* times.  Every worker sends at most once, so the receive that takes the
\* only queued result when every worker has sent is the last one.
LastReceive(c, s) ==
    Len(c) = 1 /\ \A i \in 1..NumScanners : s[i].st = "sent"

\* r := <-ch; fresh = append(fresh, r.events...), once per adapter.
Receive ==
    /\ rpc = "collect"
    /\ ch # <<>>
    /\ fresh' = fresh \o Head(ch)
    /\ ch' = Tail(ch)
    /\ rpc' = IF LastReceive(ch, scan) THEN "merge" ELSE "collect"
    /\ UNCHANGED <<now, cache, delivered, marked, scan, input, output, store, conc>>

\* Lines 89-131: reconcile the batch, then merge, delete losers and evict
\* under the lock, and return.  scan and fresh keep what the call saw.
RefreshMerge ==
    /\ rpc = "merge"
    /\ cache' = MergeBatch(cache, fresh, now)
    /\ store' = saveCache(store, cache', "ok")
    /\ rpc' = "idle"
    /\ UNCHANGED <<now, delivered, marked, scan, ch, fresh, input, output, conc>>

CollectNext ==
    \/ RefreshStart
    \/ \E i \in 1..NumScanners : DeadlineFires(i)
    \/ \E i \in 1..NumScanners : ScanReturns(i)
    \/ \E i \in 1..NumScanners : ScanHangs(i)
    \/ Receive
    \/ RefreshMerge

CollectSpec == Init /\ [][CollectNext]_vars

\* The same call under the Go scheduler: a runnable goroutine runs, so a
\* Scan about to return does return, a result in the channel is received and
\* a collected batch is merged.  Nothing obliges a Scan to return.
CollectLiveSpec ==
    /\ CollectSpec
    /\ \A i \in 1..NumScanners : WF_vars(ScanReturns(i))
    /\ WF_vars(Receive)
    /\ WF_vars(RefreshMerge)

\* ------------------------------------------------- the reconciler on its own

\* The longest list handed to one reconciliation pass.
MaxLen == 3

\* The five ranked sources and one the ranking does not know.
DedupSources == {"binance", "bybit", "okx", "tokenunlocks", "airdrops", "coinlist"}
\* Two instants of one UTC day and one of the next.
DedupDates == {D1, D1 + Hour, D1 + Day}
\* A record read back from the cache with one milestone already sent.
WithFlag(e, m) ==
    [e EXCEPT !.sent_digest = (m = "digest"), !.sent_24h = (m = "24h"),
              !.sent_2h = (m = "2h")]
\* The candidates of every source, and for the two adapters of the system
\* model their D1 record as a cache holds it after each milestone.
DedupRecords ==
    {NewEvent(s, "FOO", "listing", d) : s \in DedupSources, d \in DedupDates}
    \cup {WithFlag(NewEvent(Scanners[i], "FOO", "listing", D1), m) :
            i \in 1..NumScanners, m \in Milestones}

DedupInit ==
    /\ InitAggregator
    /\ input \in SeqsUpTo(DedupRecords, MaxLen)
    /\ output = NotRun

\* One call of deduplicateCrossSource.
Reconcile ==
    /\ ~output.done
    /\ output' = [done |-> TRUE, events |-> deduplicateCrossSource(input)]
    /\ UNCHANGED <<now, cache, delivered, marked, rpc, scan, ch, fresh, input, store, conc>>

DedupNext == Reconcile

DedupSpec == DedupInit /\ [][DedupNext]_vars

\* ------------------------------------------- the Aggregator, call by call

\* The longest cache file read at start.
MaxFile == 2

\* What data/events.json may hold: records of either adapter as a cache
\* stores them, unflagged or with one milestone sent.  The file is whatever
\* is on disk at start; loadCache takes any list that parses.
FileRecords ==
    {WithFlag(NewEvent(Scanners[i], tok, ty, d), m) :
        i \in 1..NumScanners, tok \in Tokens, ty \in Types, d \in Dates,
        m \in Milestones \cup {"none"}}
CacheFiles == SeqsUpTo(FileRecords, MaxFile)

\* NewAggregator with a cache file on disk (the empty list: none), at any
\* of the instants.
ApiInit ==
    /\ now \in Instants
    /\ \E file \in CacheFiles :
          /\ cache = loadCache(EmptyCache, file)
          /\ store = IF file = <<>> THEN NoFile ELSE JsonFile(Range(file))
    /\ delivered = [k \in Keys, m \in Milestones |-> 0]
    /\ marked = {}
    /\ rpc = "idle"
    /\ scan = IdleScan
    /\ ch = <<>>
    /\ fresh = <<>>
    /\ NoCallers
    /\ NoPass

\* The ids a caller may pass to MarkSent*: those of the adapters' records and
\* one no adapter of the system produces.
CallIds == {makeEventID(s, tok, d) :
                s \in Range(Scanners) \cup {"okx"}, tok \in Tokens, d \in Dates}

\* What a call returned: input names the call, output holds its result.
Returned(events) == [done |-> TRUE, events |-> events]

\* A call of Refresh, start to return: lines 62-131, the returned list being
\* allEvents() of the cache as the call leaves it.
CallRefresh ==
    /\ rpc = "idle"
    /\ input' = <<"Refresh">>
    /\ \E results \in Contributions, order \in Bijections(NumScanners, 1..NumScanners) :
          LET merged == MergeBatch(cache, Collect(results, order), now)
          IN /\ cache' = merged
             /\ store' = saveCache(store, merged, "ok")
             /\ \E events \in AllEventsOrders(merged) : output' = Returned(events)
    /\ UNCHANGED <<now, delivered, marked, rpc, scan, ch, fresh, conc>>

\* A call of Events().
CallEvents ==
    /\ \E view \in EventsViews(cache) : output' = Returned(view)
    /\ input' = <<"Events">>
    /\ UNCHANGED <<now, cache, delivered, marked, rpc, scan, ch, fresh, store, conc>>

\* A call of MarkSentDigest, MarkSent24h or MarkSent2h with any id.
CallMarkSent(m, id) ==
    /\ cache' = CASE m = "digest" -> MarkSentDigest(cache, id)
                  [] m = "24h" -> MarkSent24h(cache, id)
                  [] OTHER -> MarkSent2h(cache, id)
    /\ store' = saveCache(store, cache', "ok")
    /\ input' = <<"MarkSent", m, id>>
    /\ output' = Returned(<<>>)
    /\ UNCHANGED <<now, delivered, marked, rpc, scan, ch, fresh, conc>>

ApiNext ==
    \/ CallRefresh
    \/ CallEvents
    \/ \E m \in Milestones, id \in CallIds : CallMarkSent(m, id)

ApiSpec == ApiInit /\ [][ApiNext]_vars

\* ------------------------------------------- the window queries on a list

\* The longest list handed to one query.
MaxQuery == 2

\* The four event types of model/event.go.
EventTypes == {"launchpool", "listing", "unlock", "airdrop"}

\* Dates at, inside and outside the bounds of every window, seen from T0:
\* the digest's, the start of today, now, the 2h alert's (and 100 minutes
\* ahead), the start of tomorrow, the 24h alert's (and 24 hours ahead), the
\* start of the day after, and the 30 days of the listing by type.
QueryDates ==
    {T0 - 14 * Day, StartOfDay(T0), T0, T0 + 90, T0 + 100, T0 + 150,
     StartOfDay(T0) + Day, T0 + 20 * Hour, T0 + 24 * Hour, T0 + 28 * Hour,
     StartOfDay(T0) + 2 * Day, T0 + 7 * Day, T0 + 30 * Day}

\* A list of records of one type and one flag setting, in any order of dates.
QueryLists ==
    {[i \in 1..Len(ds) |-> WithFlag(NewEvent("binance", "FOO", ty, ds[i]), m)] :
        ds \in SeqsUpTo(QueryDates, MaxQuery),
        ty \in EventTypes, m \in Milestones \cup {"none"}}

SelectInit ==
    /\ InitAggregator
    /\ input \in QueryLists
    /\ output = NotRun

\* What a query returned, and which query it was.
Selected(query, events) == [done |-> TRUE, events |-> events, query |-> query]

\* One call of a window query on the list.
Select(query, events) ==
    /\ ~output.done
    /\ output' = Selected(query, events)
    /\ UNCHANGED <<now, cache, delivered, marked, rpc, scan, ch, fresh, input, store, conc>>

SelectNext ==
    \/ Select("digest", EventsForDigest(input, now))
    \/ Select("week", EventsForWeek(input, now))
    \/ Select("24h", EventsTomorrow(input, now))
    \/ Select("2h", EventsIn2Hours(input, now))
    \/ Select("today", EventsToday(input, now))
    \/ Select("tomorrow", EventsTomorrowAll(input, now))
    \/ \E ty \in EventTypes : Select(ty, EventsUpcoming(input, ty, now))

SelectSpec == SelectInit /\ [][SelectNext]_vars

\* ------------------------------------------------ the id of a candidate

\* Two feeds; a ticker in two spellings and another ticker; Tuesday 09:00 and
\* 10:00, Wednesday 00:00 and Monday 23:00.
IdSources == {"binance", "okx"}
IdTokens == {"FOO", "foo", "BAR"}
IdDates == {D1, D1 + Hour, D1 + 15 * Hour, D1 - 10 * Hour}

\* What a scanner has parsed of an announcement before it builds the event.
Parsed == [source : IdSources, token : IdTokens, type : Types, date : IdDates]

IdInit ==
    /\ InitAggregator
    /\ input \in Parsed \X Parsed
    /\ output = NotRun

\* Two announcements are turned into events, each with its makeEventID.
BuildEvents ==
    /\ ~output.done
    /\ output' = Returned([i \in 1..2 |->
                     NewEvent(input[i].source, input[i].token, input[i].type,
                              input[i].date)])
    /\ UNCHANGED <<now, cache, delivered, marked, rpc, scan, ch, fresh, input,
                   store, conc>>

IdNext == BuildEvents

IdSpec == IdInit /\ [][IdNext]_vars

\* ------------------------------------- one Refresh, every order of arrival

\* Three of the adapters, in NewAggregator's order.
OrderScanners == <<"bybit", "okx", "airdrops">>
\* The longest list one of them returns, and the longest cache file.
MaxResults == 2
MaxPrior == 2
\* Two instants of one UTC day.
OrderDates == {D1, D1 + Hour}

\* The types an adapter classifies its announcements into: the exchanges'
\* scanners tell launchpools from listings, AirdropsScanner emits airdrops
\* and TokenUnlocksScanner unlocks.
AdapterTypes(source) ==
    CASE source = "airdrops" -> {"airdrop"}
      [] source = "tokenunlocks" -> {"unlock"}
      [] OTHER -> {"launchpool", "listing"}

\* The lists a Scan of the adapter can return: BinanceScanner.Scan and
\* BybitScanner.Scan end with deduplicateEvents, the others return the list
\* as built.
AdapterResults(source) ==
    LET built == SeqsUpTo({NewEvent(source, "FOO", ty, d) :
                              ty \in AdapterTypes(source), d \in OrderDates},
                          MaxResults)
    IN IF source \in {"binance", "bybit"}
       THEN {deduplicateEvents(evs) : evs \in built}
       ELSE built

\* The cache a start finds: records of the three sources, unflagged or with
\* the 24h alert sent.
PriorRecords ==
    UNION {{WithFlag(NewEvent(OrderScanners[i], "FOO", ty, D1), m) :
               ty \in AdapterTypes(OrderScanners[i]), m \in {"none", "24h"}} :
           i \in 1..Len(OrderScanners)}
PriorCaches ==
    {loadCache(EmptyCache, file) : file \in SeqsUpTo(PriorRecords, MaxPrior)}

\* A Refresh is in flight: every Scan has returned its list (input), none of
\* the results has been received yet.
OrderInit ==
    /\ now = T0
    /\ cache \in PriorCaches
    /\ store = saveCache(NoFile, cache, "ok")
    /\ delivered = [k \in Keys, m \in Milestones |-> 0]
    /\ marked = {}
    /\ rpc = "collect"
    /\ scan = IdleScan
    /\ ch = <<>>
    /\ fresh = <<>>
    /\ NoCallers
    /\ input \in AdapterResults(OrderScanners[1])
                    \X AdapterResults(OrderScanners[2])
                    \X AdapterResults(OrderScanners[3])
    /\ output = NotRun

\* Lines 83-131: the results are received in the order the workers sent
\* them, appended, reconciled and merged under the lock.
ReceiveAndMerge ==
    /\ rpc = "collect"
    /\ \E order \in Bijections(Len(input), 1..Len(input)) :
          /\ fresh' = Collect(input, order)
          /\ cache' = MergeBatch(cache, fresh', now)
    /\ store' = saveCache(store, cache', "ok")
    /\ rpc' = "idle"
    /\ UNCHANGED <<now, delivered, marked, scan, ch, input, output, conc>>

OrderNext == ReceiveAndMerge

OrderSpec == OrderInit /\ [][OrderNext]_vars

\* ------------------------------------------ the Aggregator and its file

\* What a first start may find at a.cachePath: nothing, or bytes that do not
\* parse, here what is left of an array of two flagged records.
BrokenFile ==
    [state |-> "corrupt",
     objects |-> {MarshalEvent(WithFlag(NewEvent(Scanners[i], "FOO", "listing", D1),
                                        "digest")) : i \in 1..NumScanners}]

DiskInit ==
    /\ now \in {T0, T0 + 73 * Hour}
    /\ store \in {NoFile, BrokenFile}
    /\ cache = ReadCache(store)
    /\ delivered = [k \in Keys, m \in Milestones |-> 0]
    /\ marked = {}
    /\ rpc = "idle"
    /\ scan = IdleScan
    /\ ch = <<>>
    /\ fresh = <<>>
    /\ NoCallers
    /\ input = <<"NewAggregator">>
    /\ output = Returned(<<>>)

\* The writes that fail in a row, at most.
MaxFailures == 1

\* The failed writes since the last one that succeeded, as input counts them.
Failures == IF Len(input) = 3 THEN input[3] ELSE 0
MayCome(w) == w = "ok" \/ Failures < MaxFailures
Outcome(op, w) == <<op, w, IF w = "ok" THEN 0 ELSE Failures + 1>>

\* A call of Refresh whose saveCache comes to w.
DiskRefresh(w) ==
    /\ MayCome(w)
    /\ input' = Outcome("Refresh", w)
    /\ output' = Returned(<<>>)
    /\ \E results \in Contributions, order \in Bijections(NumScanners, 1..NumScanners) :
          cache' = MergeBatch(cache, Collect(results, order), now)
    /\ store' = saveCache(store, cache', w)
    /\ UNCHANGED <<now, delivered, marked, rpc, scan, ch, fresh, conc>>

\* A call of MarkSentDigest, MarkSent24h or MarkSent2h whose saveCache comes
\* to w.
DiskMarkSent(m, id, w) ==
    /\ MayCome(w)
    /\ input' = Outcome("MarkSent", w)
    /\ output' = Returned(<<>>)
    /\ cache' = CASE m = "digest" -> MarkSentDigest(cache, id)
                  [] m = "24h" -> MarkSent24h(cache, id)
                  [] OTHER -> MarkSent2h(cache, id)
    /\ store' = saveCache(store, cache', w)
    /\ UNCHANGED <<now, delivered, marked, rpc, scan, ch, fresh, conc>>

\* The process ends and is started again: NewAggregator builds an empty
\* cache and calls loadCache on the file as the last run left it.
Restart ==
    /\ cache' = ReadCache(store)
    /\ input' = <<"NewAggregator">>
    /\ output' = Returned(<<>>)
    /\ UNCHANGED <<now, delivered, marked, rpc, scan, ch, fresh, store, conc>>

DiskNext ==
    \/ \E w \in WriteOutcomes : DiskRefresh(w)
    \/ \E m \in Milestones, id \in CallIds, w \in WriteOutcomes : DiskMarkSent(m, id, w)
    \/ Restart

DiskSpec == DiskInit /\ [][DiskNext]_vars

\* --------------------------------------- goroutines calling one Aggregator

\* The scheduler's goroutine and a command handler's.
Goroutines == {1, 2}
\* The calls one goroutine makes.
MaxCalls == 1

\* A Refresh that takes the lock before it starts its workers.
RefreshBody_LockFirst == <<"lock", "scan", "upsert", "losers", "evict", "save">>

\* The statements of Refresh in program order: fan-out, collection and
\* reconciliation (lines 62-89), a.mu.Lock() (91), the upsert loop (94-103),
\* the loser deletion (105-120), the eviction (122-128), saveCache and the
\* return with its deferred Unlock (130-131).
RefreshBody == <<"scan", "lock", "upsert", "losers", "evict", "save">>
\* MarkSentDigest, MarkSent24h, MarkSent2h: Lock, the flag, saveCache.
MarkSentBody == <<"lock", "mark", "save">>
\* Events: Lock, the reconciled copy of the map.
EventsBody == <<"lock", "snapshot">>

Body(op) ==
    CASE op = "Refresh" -> RefreshBody
      [] op = "MarkSent" -> MarkSentBody
      [] op = "Events" -> EventsBody
      [] OTHER -> <<>>

\* A goroutine outside any call, after n calls.
Outside(n) == [op |-> "idle", pc |-> 0, arg |-> <<>>, calls |-> n]

\* Goroutine g is about to execute the statement.
At(g, statement) ==
    /\ proc[g].pc \in 1..Len(Body(proc[g].op))
    /\ Body(proc[g].op)[proc[g].pc] = statement

\* The statement g is at is the last of its call.
Last(g) == proc[g].pc = Len(Body(proc[g].op))

\* The call of g run alone on cache c.
Alone(c, g) ==
    CASE proc[g].op = "Refresh" -> MergeBatch(c, proc[g].arg, now)
      [] proc[g].op = "MarkSent" ->
            (CASE proc[g].arg[1] = "digest" -> MarkSentDigest(c, proc[g].arg[2])
               [] proc[g].arg[1] = "24h" -> MarkSent24h(c, proc[g].arg[2])
               [] OTHER -> MarkSent2h(c, proc[g].arg[2]))
      [] OTHER -> c

\* g has executed its statement and holds arg: it goes on to the next one,
\* or returns, and the deferred a.mu.Unlock() runs.
Proceed(g, arg, holder) ==
    /\ proc' = [proc EXCEPT ![g] = IF Last(g) THEN Outside(@.calls)
                                   ELSE [@ EXCEPT !.pc = @ + 1, !.arg = arg]]
    /\ mu' = IF Last(g) THEN 0 ELSE holder
    /\ serial' = IF Last(g) THEN Alone(serial, g) ELSE serial

\* A mutex that lets every caller in.
CanLock_Open(holder) == TRUE

\* sync.Mutex.Lock returns when the mutex is free.
CanLock(holder) == holder = 0

\* The cache a start found: listings of either adapter, unflagged or with
\* the 24h alert sent.
ConcCaches ==
    {loadCache(EmptyCache, file) :
        file \in SeqsUpTo({WithFlag(NewEvent(Scanners[i], "FOO", "listing", D1), m) :
                              i \in 1..NumScanners, m \in {"none", "24h"}},
                         MaxFile)}

ConcInit ==
    /\ now \in {T0, T0 + 73 * Hour}
    /\ cache \in ConcCaches
    /\ store = saveCache(NoFile, cache, "ok")
    /\ delivered = [k \in Keys, m \in Milestones |-> 0]
    /\ marked = {}
    /\ rpc = "idle"
    /\ scan = IdleScan
    /\ ch = <<>>
    /\ fresh = <<>>
    /\ mu = 0
    /\ proc = [g \in Goroutines |-> Outside(0)]
    /\ serial = cache
    /\ NoPass

\* g calls Refresh, a MarkSent* or Events.
Call(g) ==
    /\ proc[g].op = "idle"
    /\ proc[g].calls < MaxCalls
    /\ \E call \in {<<"Refresh", <<>> >>, <<"Events", <<>> >>}
                    \cup {<<"MarkSent", <<m, id>> >> : m \in Milestones, id \in CallIds} :
          proc' = [proc EXCEPT ![g] = [op |-> call[1], pc |-> 1, arg |-> call[2],
                                       calls |-> @.calls + 1]]
    /\ UNCHANGED <<now, cache, delivered, marked, rpc, scan, ch, fresh, input,
                   output, store, mu, serial>>

\* The workers of g's Refresh return, their results are received in some
\* order and reconciled: fresh is local to the call.
ScanStep(g) ==
    /\ At(g, "scan")
    /\ \E results \in Contributions, order \in Bijections(NumScanners, 1..NumScanners) :
          Proceed(g, deduplicateCrossSource(Collect(results, order)), mu)
    /\ UNCHANGED <<now, cache, delivered, marked, rpc, scan, ch, fresh, input,
                   output, store>>

\* a.mu.Lock()
LockStep(g) ==
    /\ At(g, "lock")
    /\ CanLock(mu)
    /\ Proceed(g, proc[g].arg, g)
    /\ UNCHANGED <<now, cache, delivered, marked, rpc, scan, ch, fresh, input,
                   output, store>>

\* for _, e := range fresh { ... a.cache[e.ID] = e }
UpsertStep(g) ==
    /\ At(g, "upsert")
    /\ cache' = MergeFresh(cache, proc[g].arg)
    /\ Proceed(g, proc[g].arg, mu)
    /\ UNCHANGED <<now, delivered, marked, rpc, scan, ch, fresh, input, output,
                   store>>

\* for _, winner := range fresh { ... delete(a.cache, id) }
LosersStep(g) ==
    /\ At(g, "losers")
    /\ cache' = DeleteLosers(cache, proc[g].arg)
    /\ Proceed(g, proc[g].arg, mu)
    /\ UNCHANGED <<now, delivered, marked, rpc, scan, ch, fresh, input, output,
                   store>>

\* for id, e := range a.cache { if e.Date.Before(cutoff) { delete } }
EvictStep(g) ==
    /\ At(g, "evict")
    /\ cache' = Evict(cache, now)
    /\ Proceed(g, proc[g].arg, mu)
    /\ UNCHANGED <<now, delivered, marked, rpc, scan, ch, fresh, input, output,
                   store>>

\* if e, ok := a.cache[id]; ok { e.SentX = true; a.cache[id] = e }
MarkStep(g) ==
    /\ At(g, "mark")
    /\ cache' = Alone(cache, g)
    /\ Proceed(g, proc[g].arg, mu)
    /\ UNCHANGED <<now, delivered, marked, rpc, scan, ch, fresh, input, output,
                   store>>

\* Some other goroutine than g is inside a Refresh call.
RefreshUnderWay(g) == \E h \in Goroutines \ {g} : proc[h].op = "Refresh"

\* a.saveCache(), the disk taking the write, and the return.  A MarkSent
\* call that returns while a Refresh is under way is remembered.
SaveStep(g) ==
    /\ At(g, "save")
    /\ store' = saveCache(store, cache, "ok")
    /\ Proceed(g, proc[g].arg, mu)
    /\ marked' = IF proc[g].op = "MarkSent" /\ RefreshUnderWay(g)
                 THEN marked \cup {<<proc[g].arg[2], proc[g].arg[1]>>}
                 ELSE marked
    /\ UNCHANGED <<now, cache, delivered, rpc, scan, ch, fresh, input, output>>

\* return deduplicateCrossSource(a.allEvents()): a copy of what the map holds
\* at this moment.
SnapshotStep(g) ==
    /\ At(g, "snapshot")
    /\ Proceed(g, proc[g].arg, mu)
    /\ UNCHANGED <<now, cache, delivered, marked, rpc, scan, ch, fresh, input,
                   output, store>>

ConcNext ==
    \/ \E g \in Goroutines : Call(g)
    \/ \E g \in Goroutines : ScanStep(g)
    \/ \E g \in Goroutines : LockStep(g)
    \/ \E g \in Goroutines : UpsertStep(g)
    \/ \E g \in Goroutines : LosersStep(g)
    \/ \E g \in Goroutines : EvictStep(g)
    \/ \E g \in Goroutines : MarkStep(g)
    \/ \E g \in Goroutines : SaveStep(g)
    \/ \E g \in Goroutines : SnapshotStep(g)

ConcSpec == ConcInit /\ [][ConcNext]_vars

\* ------------------------------------------------------------ properties

\* The vocabulary of the claims, written out independently of the model's
\* operators: the group key (token, UTC day of date, type) and the ranking
\* binance 1 < bybit 2 < okx 3 < tokenunlocks 4 < airdrops 5 < other 99.
ClaimKey(e) == <<e.token, e.date \div (24 * 60), e.type>>
ClaimRank(source) ==
    IF source \in {"binance", "bybit", "okx", "tokenunlocks", "airdrops"}
    THEN [binance |-> 1, bybit |-> 2, okx |-> 3, tokenunlocks |-> 4,
          airdrops |-> 5][source]
    ELSE 99
InputGroup(k) == {i \in 1..Len(input) : ClaimKey(input[i]) = k}

\* C5 - One winner per group: the output of deduplicateCrossSource holds
\* exactly one record for each distinct (token, UTC day, type) key of its
\* input and no record whose key the input does not have.
C5_OneWinnerPerGroup ==
    output.done =>
        /\ \A i \in 1..Len(input) :
              Cardinality({j \in 1..Len(output.events) :
                              ClaimKey(output.events[j]) = ClaimKey(input[i])}) = 1
        /\ \A j \in 1..Len(output.events) :
              InputGroup(ClaimKey(output.events[j])) # {}

\* Three records, two of them the same day at different hours: two groups.
C5_Witness ==
    /\ output.done
    /\ Len(input) = 3
    /\ Len(output.events) = 2
    /\ \E i, j \in 1..3 : /\ input[i].date # input[j].date
                          /\ ClaimKey(input[i]) = ClaimKey(input[j])

\* C6 - Priority correctness: the winner of every group comes from the
\* source with the lowest priority number among the group's members, in
\* whatever order the members arrive.
C6_PriorityCorrectness ==
    output.done =>
        \A j \in 1..Len(output.events) :
            \A i \in InputGroup(ClaimKey(output.events[j])) :
                ClaimRank(output.events[j].source) <= ClaimRank(input[i].source)

\* A group of three whose best-ranked member arrives last, behind one of an
\* unranked source.
C6_Witness ==
    /\ output.done
    /\ Len(input) = 3
    /\ Len(output.events) = 1
    /\ ClaimRank(input[1].source) = 99
    /\ ClaimRank(input[2].source) = 5
    /\ ClaimRank(input[3].source) = 3
    /\ output.events[1].source = "okx"

\* C7 - Flag union on merge: each flag of a group's winner is the OR of that
\* flag over all members of the group.
C7_FlagUnion ==
    output.done =>
        \A j \in 1..Len(output.events) :
            LET g == InputGroup(ClaimKey(output.events[j]))
            IN /\ output.events[j].sent_digest = (\E i \in g : input[i].sent_digest)
               /\ output.events[j].sent_24h = (\E i \in g : input[i].sent_24h)
               /\ output.events[j].sent_2h = (\E i \in g : input[i].sent_2h)

\* The scenario of the specification: A/FOO, B/FOO and A/FOO with
\* sent_digest reconcile to one record of source A with sent_digest.
C7_Witness ==
    /\ output.done
    /\ Len(input) = 3
    /\ input[1].source = "binance" /\ ~input[1].sent_digest
    /\ input[2].source = "bybit" /\ ~input[2].sent_digest
    /\ input[3].source = "binance" /\ input[3].sent_digest
    /\ Len(output.events) = 1
    /\ output.events[1].source = "binance"
    /\ output.events[1].sent_digest
    /\ ~output.events[1].sent_24h

\* ---- the aggregator between Refresh calls and scheduler cycles

\* The flag of one milestone.
Flag(e, m) ==
    CASE m = "digest" -> e.sent_digest
      [] m = "24h" -> e.sent_24h
      [] OTHER -> e.sent_2h

\* The batches one Refresh may collect from its adapters.
Batches ==
    {Collect(results, order) :
        results \in Contributions,
        order \in Bijections(NumScanners, 1..NumScanners)}

\* The step is a Refresh that collected batch B.
RefreshOf(B) == cache' = MergeBatch(cache, B, now)

\* In the claims' vocabulary: the positions of a batch that hold the
\* best-ranked record of their group, the records Refresh merges.
Merged(B) ==
    {j \in 1..Len(B) :
        \A i \in 1..Len(B) :
            ClaimKey(B[i]) = ClaimKey(B[j])
                => ClaimRank(B[j].source) <= ClaimRank(B[i].source)}
SameFields(a, b) ==
    /\ a.id = b.id /\ a.type = b.type /\ a.source = b.source
    /\ a.token = b.token /\ a.date = b.date
SameFlags(a, b) ==
    /\ a.sent_digest = b.sent_digest /\ a.sent_24h = b.sent_24h
    /\ a.sent_2h = b.sent_2h
NoFlags(a) == ~a.sent_digest /\ ~a.sent_24h /\ ~a.sent_2h

\* C1 - At-most-once delivery: whatever the interleaving of Refresh calls
\* and scheduler cycles, each milestone is delivered at most once for each
\* real-world event (token, UTC day, type), also when the sources reporting
\* the event change between two Refresh calls.
C1_AtMostOnce ==
    \A k \in Keys, m \in Milestones : delivered[k, m] <= 1

\* C2 - Sent-flag carry-over across a source change: when a cache entry not
\* older than 48 h has sent_X before a Refresh, the record Events() returns
\* for its (token, UTC day, type) after that Refresh has sent_X, also when
\* the fresh winner of the key comes from another source.
C2_FlagCarryOver ==
    [][\A B \in Batches : RefreshOf(B) =>
          \A id \in DOMAIN cache, m \in Milestones :
              (Flag(cache[id], m) /\ cache[id].date >= now - 48 * 60) =>
                  \A view \in EventsViews(cache') :
                      \A j \in 1..Len(view) :
                          ClaimKey(view[j]) = ClaimKey(cache[id])
                              => Flag(view[j], m)]_vars

\* C3 - Flag monotonicity per record: once the cache record with some id has
\* sent_X, every later state that has a record with that id in the cache has
\* it with sent_X.
C3_FlagMonotonic ==
    \A p \in marked : p[1] \in DOMAIN cache => Flag(cache[p[1]], p[2])

\* C4 - Merge upsert: a merged record whose id the cache already has is
\* stored with its own non-flag fields and exactly the three flags of the
\* cached entry; one whose id the cache does not have is stored with all
\* three flags false.
C4_MergeUpsert ==
    [][\A B \in Batches : RefreshOf(B) =>
          \A j \in Merged(B) :
              B[j].date >= now - 48 * 60 =>
                  LET id == B[j].id
                  IN /\ id \in DOMAIN cache'
                     /\ \E i \in Merged(B) :
                           B[i].id = id /\ SameFields(cache'[id], B[i])
                     /\ IF id \in DOMAIN cache
                        THEN SameFlags(cache'[id], cache[id])
                        ELSE NoFlags(cache'[id])]_vars

\* A launchpool record with sent_2h: the 2h alert goes to listings and
\* airdrops only, so the flag was set on a listing and kept by the upsert of
\* a launchpool record with the same id.
C4_Witness ==
    \E id \in DOMAIN cache :
        /\ cache[id].type = "launchpool"
        /\ cache[id].sent_2h
        /\ cache[id].sent_24h

\* C8 - Eviction: after a Refresh the cache has no record dated earlier than
\* 48 h before that Refresh, cached before or fresh, whatever its source and
\* flags; a cached record dated later than that, and not a same-key
\* duplicate of a merged record with another id, is still cached with its
\* flags.
C8_Eviction ==
    [][\A B \in Batches : RefreshOf(B) =>
          /\ \A id \in DOMAIN cache' : cache'[id].date >= now - 48 * 60
          /\ \A id \in DOMAIN cache :
                (/\ cache[id].date > now - 48 * 60
                 /\ ~\E j \in Merged(B) :
                        /\ ClaimKey(B[j]) = ClaimKey(cache[id])
                        /\ B[j].id # id)
                    => /\ id \in DOMAIN cache'
                       /\ SameFlags(cache'[id], cache[id])]_vars

\* 49 hours after the only event date the cache is empty although a record
\* was cached and went into a digest: a Refresh evicted it, flag and all.
C8_Witness ==
    /\ now = T0 + 73 * Hour
    /\ cache = EmptyCache
    /\ \E p \in marked : p[2] = "digest"

\* ---- one Refresh, goroutine by goroutine

C10_RefreshReturns ==
    (\E i \in 1..NumScanners : scan[i].st = "hung") ~> (rpc = "idle")

\* ---- the Aggregator, call by call

\* In the claims' vocabulary: events is Reconciler(contents of c): one record
\* for each (token, UTC day, type) key of c and none for another key, from
\* the best-ranked source among the entries of the key, its flags the OR
\* over them.
ReconciledFrom(events, c) ==
    /\ \A id \in DOMAIN c :
          Cardinality({j \in 1..Len(events) :
                          ClaimKey(events[j]) = ClaimKey(c[id])}) = 1
    /\ \A j \in 1..Len(events) :
          LET g == {id \in DOMAIN c : ClaimKey(c[id]) = ClaimKey(events[j])}
          IN /\ \E id \in g : SameFields(events[j], c[id])
             /\ \A id \in g :
                   ClaimRank(events[j].source) <= ClaimRank(c[id].source)
             /\ \A m \in Milestones :
                   Flag(events[j], m) = (\E id \in g : Flag(c[id], m))

\* The last call was op.
LastCall(op) == input # <<>> /\ input[1] = op

\* C11 - Refresh returns the reconciled cache: the list Refresh returns is
\* Reconciler(cache after merge and eviction), with at most one record per
\* (token, UTC day, type) also when the cache holds same-key entries of
\* different sources that the batch did not touch.
C11_RefreshReturnsReconciled ==
    LastCall("Refresh") => ReconciledFrom(output.events, cache)

\* C12 - Events() is a pure reconciled view: it returns Reconciler(cache),
\* hiding cached losing-source entries, invokes no adapter and leaves the
\* cache, hidden entries and flags included, as it was.
C12_EventsPureView ==
    [][CallEvents =>
          /\ ReconciledFrom(output'.events, cache)
          /\ cache' = cache
          /\ rpc' = rpc /\ scan' = scan /\ ch' = ch /\ fresh' = fresh]_vars

\* Events() returned one record, binance's, with a flag that only the cached
\* bybit entry of the same key carries; both entries are still cached.
C12_Witness ==
    /\ LastCall("Events")
    /\ Len(output.events) = 1
    /\ output.events[1].source = "binance"
    /\ \E a, b \in DOMAIN cache :
          /\ cache[a].source = "binance" /\ cache[b].source = "bybit"
          /\ ClaimKey(cache[a]) = ClaimKey(cache[b])
          /\ cache[b].sent_24h /\ ~cache[a].sent_24h
          /\ output.events[1].sent_24h

\* C13 - MarkSentDigest, MarkSent24h and MarkSent2h with an id that is not a
\* key of the cache return normally, create no entry and change no flag.
C13_MarkAbsentNoOp ==
    [][\A m \in Milestones, id \in CallIds :
          (CallMarkSent(m, id) /\ id \notin DOMAIN cache)
              => (cache' = cache /\ output'.done)]_vars

\* MarkSent24h was called with an id the non-empty cache does not have.
C13_Witness ==
    /\ LastCall("MarkSent")
    /\ input[2] = "24h"
    /\ input[3] \notin DOMAIN cache
    /\ cache # EmptyCache
    /\ output.done

\* C14 - Independent flag axes: MarkSentX on a cached id sets flag X of that
\* record and changes nothing else: its other two flags, its non-flag fields
\* and every other record stay, so a second call changes nothing.
C14_IndependentFlags ==
    [][\A m \in Milestones, id \in CallIds :
          (CallMarkSent(m, id) /\ id \in DOMAIN cache) =>
              /\ DOMAIN cache' = DOMAIN cache
              /\ \A i \in DOMAIN cache : i # id => cache'[i] = cache[i]
              /\ SameFields(cache'[id], cache[id])
              /\ Flag(cache'[id], m)
              /\ \A m2 \in Milestones \ {m} :
                    Flag(cache'[id], m2) = Flag(cache[id], m2)
              /\ Flag(cache[id], m) => cache' = cache]_vars

\* The combination of the specification: sent_24h and sent_digest set,
\* sent_2h not, the digest mark being the later one.
C14_Witness ==
    /\ LastCall("MarkSent")
    /\ input[2] = "digest"
    /\ input[3] \in DOMAIN cache
    /\ cache[input[3]].sent_24h
    /\ cache[input[3]].sent_digest
    /\ ~cache[input[3]].sent_2h

\* ---- the milestone selections

\* The selection of a milestone.
Selection(m, events, t) ==
    CASE m = "digest" -> EventsForDigest(events, t)
      [] m = "24h" -> EventsTomorrow(events, t)
      [] OTHER -> EventsIn2Hours(events, t)

\* C15 - Idempotence guard: no selection X over Events() returns a record
\* that has sent_X, nor one whose cached entry has it; so a listing dated
\* now + 100 min, selected for the 2h alert while sent_2h is false, is not
\* selected again once MarkSent2h has been applied to its id.
C15_IdempotenceGuard ==
    \A view \in EventsViews(cache), m \in Milestones :
        LET selected == Selection(m, view, now)
        IN \A j \in 1..Len(selected) :
              /\ ~Flag(selected[j], m)
              /\ selected[j].id \in DOMAIN cache
                    => ~Flag(cache[selected[j].id], m)

\* A listing 100 minutes ahead carries sent_2h (the 2h cycle selected, sent
\* and marked it at this instant) and the 2h selection is now empty.
C15_Witness ==
    /\ \E id \in DOMAIN cache :
          /\ cache[id].type = "listing"
          /\ cache[id].date = now + 100
          /\ cache[id].sent_2h
          /\ ~cache[id].sent_24h
    /\ \A view \in EventsViews(cache) : EventsIn2Hours(view, now) = <<>>

\* ---- the window queries on a list

\* The positions of the list that satisfy a condition, and a result that
\* holds exactly the records at these positions.
Exactly(events, positions) ==
    /\ Len(events) = Cardinality(positions)
    /\ \A i \in positions : \E j \in 1..Len(events) : events[j] = input[i]
    /\ \A j \in 1..Len(events) : \E i \in positions : events[j] = input[i]

\* C16 - Milestone windows: each milestone selection returns exactly the
\* records whose flag is unset and whose date lies in the closed window,
\* bounds included: digest now-14d..now+7d, 24h alert now+20h..now+28h, 2h
\* alert now+90min..now+150min and listing or airdrop only.
C16_ClosedWindows ==
    output.done =>
        /\ output.query = "digest" =>
              Exactly(output.events, {i \in 1..Len(input) :
                  /\ ~input[i].sent_digest
                  /\ now - 14 * 24 * 60 <= input[i].date
                  /\ input[i].date <= now + 7 * 24 * 60})
        /\ output.query = "24h" =>
              Exactly(output.events, {i \in 1..Len(input) :
                  /\ ~input[i].sent_24h
                  /\ now + 20 * 60 <= input[i].date
                  /\ input[i].date <= now + 28 * 60})
        /\ output.query = "2h" =>
              Exactly(output.events, {i \in 1..Len(input) :
                  /\ ~input[i].sent_2h
                  /\ input[i].type \in {"listing", "airdrop"}
                  /\ now + 90 <= input[i].date
                  /\ input[i].date <= now + 150})

\* 00:00 UTC of the day of now, in the claims' vocabulary.
Midnight == (now \div (24 * 60)) * (24 * 60)

\* C17 - Day queries are half-open and partition the two days: Today returns
\* exactly the records with 00:00 today <= date < 00:00 tomorrow, Tomorrow
\* those with 00:00 tomorrow <= date < 00:00 the day after, whatever the
\* flags; a record dated 00:00 of a day belongs to that day's query.
C17_DayQueries ==
    output.done =>
        /\ output.query = "today" =>
              Exactly(output.events, {i \in 1..Len(input) :
                  /\ Midnight <= input[i].date
                  /\ input[i].date < Midnight + 24 * 60})
        /\ output.query = "tomorrow" =>
              Exactly(output.events, {i \in 1..Len(input) :
                  /\ Midnight + 24 * 60 <= input[i].date
                  /\ input[i].date < Midnight + 48 * 60})

\* C18 - Upcoming-by-type returns exactly the records of the given type with
\* now < date <= now + 30 d, whatever the flags.
C18_UpcomingByType ==
    (output.done /\ output.query \in EventTypes) =>
        Exactly(output.events, {i \in 1..Len(input) :
            /\ input[i].type = output.query
            /\ now < input[i].date
            /\ input[i].date <= now + 30 * 24 * 60})

\* C19 - Every window query returns its result in non-decreasing order of
\* date, whatever the order of its input.
C19_SortedByDate ==
    output.done =>
        \A i, j \in 1..Len(output.events) :
            i < j => output.events[i].date <= output.events[j].date

\* A list of two in descending order of date, both returned.
C19_Witness ==
    /\ output.done
    /\ Len(input) = 2
    /\ input[1].date > input[2].date
    /\ Len(output.events) = 2
    /\ output.events[1] = input[2]
    /\ output.events[2] = input[1]

\* ---- delivery failures

\* C20 - Delivery-failure isolation: in a 24h or 2h alert cycle a record is
\* marked only when its own delivery succeeded; a record whose delivery
\* failed keeps its flag unset and is selected again, and every record
\* delivered is marked, whatever happened to the others of the batch.
C20_FailureIsolation ==
    [][(Alerts24hCycle(TRUE, FALSE) \/ Alerts2hCycle(TRUE, FALSE)) =>
          \A id \in DOMAIN cache, m \in {"24h", "2h"} :
              LET k == ClaimKey(cache[id])
                  sent == delivered'[k, m] = delivered[k, m] + 1
              IN /\ id \in DOMAIN cache'
                 /\ (Flag(cache'[id], m) /\ ~Flag(cache[id], m)) => sent
                 /\ (sent /\ \A view \in EventsViews(cache) :
                                \E j \in 1..Len(view) : view[j].id = id)
                        => Flag(cache'[id], m)
                 /\ ~sent => delivered'[k, m] = delivered[k, m]
                 /\ (~sent /\ \A view \in EventsViews(cache) :
                                 \E j \in 1..Len(Selection(m, view, now)) :
                                     Selection(m, view, now)[j].id = id)
                        => \A view \in EventsViews(cache') :
                               \E j \in 1..Len(Selection(m, view, now)) :
                                   Selection(m, view, now)[j].id = id]_vars

\* Two records in the 24h window: the alert of one was delivered once and
\* the record is marked, the other's was not and its flag is unset.
C20_Witness ==
    \E a, b \in DOMAIN cache :
        /\ a # b
        /\ cache[a].date = now + 24 * Hour /\ cache[b].date = now + 24 * Hour
        /\ cache[a].sent_24h /\ delivered[ClaimKey(cache[a]), "24h"] = 1
        /\ ~cache[b].sent_24h /\ delivered[ClaimKey(cache[b]), "24h"] = 0
        /\ \A view \in EventsViews(cache) :
              \E j \in 1..Len(EventsTomorrow(view, now)) :
                  EventsTomorrow(view, now)[j].id = b

\* The ticker of the claims' vocabulary: the spelling in capitals.
ClaimTicker(token) == IF token = "foo" THEN "FOO" ELSE token

\* C27: the id is a function of the source, the upper-cased token and the UTC
\* day of the date and of nothing else: two candidates get the same id
\* exactly when they agree on these three, whatever their time of day and
\* type.
C27_IdentityById ==
    output.done =>
        (output.events[1].id = output.events[2].id
            <=> /\ input[1].source = input[2].source
                /\ ClaimTicker(input[1].token) = ClaimTicker(input[2].token)
                /\ input[1].date \div (24 * 60) = input[2].date \div (24 * 60))

\* Two candidates of one source and one UTC day that differ in spelling, time
\* of day and type, under one id.
C27_Witness ==
    /\ output.done
    /\ output.events[1].id = output.events[2].id
    /\ input[1].token # input[2].token
    /\ input[1].date # input[2].date
    /\ input[1].type # input[2].type

\* C30 - Loser deletion: after the merge of a Refresh, for every winning
\* record of the reconciled batch the cache holds no entry with the winner's
\* (token, UTC day, type) under another id.
C30_LoserDeletion ==
    [][\A B \in Batches : RefreshOf(B) =>
          \A j \in Merged(B) :
              \A id \in DOMAIN cache' :
                  ClaimKey(cache'[id]) = ClaimKey(B[j]) => id = B[j].id]_vars

\* At T0 nothing is old enough to be evicted: a record that was marked and
\* is gone while another source's record is cached was deleted as a loser.
C30_Witness ==
    /\ now = T0
    /\ \E p \in marked :
          /\ p[1] \notin DOMAIN cache
          /\ \E id \in DOMAIN cache : id[1] # p[1][1]

\* C28 - Refresh with an empty fresh batch: every entry not older than 48 h
\* is kept with identical fields and flags, the older ones are evicted, no
\* entry is added, and the call returns.
C28_EmptyBatch ==
    [][(RefreshOf(<<>>) /\ CallRefresh) =>
          /\ DOMAIN cache' = {id \in DOMAIN cache : cache[id].date >= now - 48 * 60}
          /\ \A id \in DOMAIN cache' : cache'[id] = cache[id]
          /\ output'.done]_vars

\* After a Refresh the cache holds two flagged records of one (token, UTC
\* day, type) under two ids: a batch with a record of that key would have
\* deleted one of them and a batch with a record of another type would have
\* replaced one, so the batch was empty.
C28_Witness ==
    /\ LastCall("Refresh")
    /\ \E a, b \in DOMAIN cache :
          /\ a # b
          /\ ClaimKey(cache[a]) = ClaimKey(cache[b])
          /\ cache[a].sent_24h
          /\ cache[b].sent_digest

\* C29 - Arrival-order independence: for a fixed prior cache and fixed
\* per-adapter results, the cache a Refresh leaves (ids, fields and flags) is
\* the one every other order of arrival of the same results leaves.
C29_ArrivalOrder ==
    [][ReceiveAndMerge =>
          \A order \in Bijections(Len(input), 1..Len(input)) :
              cache' = MergeBatch(cache, Collect(input, order), now)]_vars

\* A merge in which the order could have mattered: two adapters reported
\* the same (token, UTC day, type), one of them two records of different
\* types under one id, and the results did not arrive in the adapters' order.
C29_Witness ==
    /\ rpc = "idle"
    /\ Len(input) = 3
    /\ Len(input[1]) > 0 /\ Len(input[2]) = 2 /\ Len(input[3]) > 0
    /\ input[2][1].type # input[2][2].type
    /\ ClaimKey(input[1][1]) = ClaimKey(input[2][2])
    /\ fresh = input[3] \o input[2] \o input[1]
    /\ \E id \in DOMAIN cache : cache[id].sent_24h

\* In the claims' vocabulary: the file is a JSON array with one object per
\* cache entry and no other, each with the entry's id, type, source, token,
\* date and three flags.
StoreHolds(st, c) ==
    /\ st.state = "json"
    /\ Cardinality(st.objects) = Cardinality(DOMAIN c)
    /\ \A id \in DOMAIN c :
          \E o \in st.objects :
              /\ o.id = id /\ o.type = c[id].type /\ o.source = c[id].source
              /\ o.token = c[id].token
              /\ o.date[1] * 24 * 60 + o.date[2] * 60 + o.date[3] = c[id].date
              /\ o.sent_digest = c[id].sent_digest
              /\ o.sent_24h = c[id].sent_24h
              /\ o.sent_2h = c[id].sent_2h

\* The write of the last call came to w.
LastWrite(w) == Len(input) = 3 /\ input[2] = w

\* C21 - Persist after every mutation: when the write succeeds, after a
\* Refresh or a MarkSent* call has returned the file holds exactly the
\* cache: the same ids, every field and all three flags.
C21_PersistAfterMutation ==
    ((LastCall("Refresh") \/ LastCall("MarkSent")) /\ LastWrite("ok"))
        => (output.done /\ StoreHolds(store, cache))

\* A MarkSent call has returned, its write done, with two entries cached and
\* one of them flagged for the 2h alert.
C21_Witness ==
    /\ LastCall("MarkSent") /\ LastWrite("ok")
    /\ Cardinality(DOMAIN cache) = 2
    /\ \E id \in DOMAIN cache : cache[id].sent_2h

\* C22 - Persistence failure is non-fatal: a MarkSent* or Refresh whose
\* write fails still returns, the cache keeps the flag (Events() shows it)
\* or the merged records, and the first write that succeeds after a failed
\* one stores the whole current cache.
C22_FailureNonFatal ==
    [][/\ \A m \in Milestones, id \in CallIds, w \in {"denied", "cut"} :
             DiskMarkSent(m, id, w) =>
                 /\ output'.done
                 /\ id \in DOMAIN cache =>
                       /\ id \in DOMAIN cache' /\ Flag(cache'[id], m)
                       /\ \A view \in EventsViews(cache') :
                             \E j \in 1..Len(view) :
                                 /\ ClaimKey(view[j]) = ClaimKey(cache[id])
                                 /\ Flag(view[j], m)
       /\ \A w \in {"denied", "cut"} :
             DiskRefresh(w) =>
                 /\ output'.done
                 /\ \A B \in Batches : RefreshOf(B) =>
                       \A j \in Merged(B) :
                           B[j].date >= now - 48 * 60 => B[j].id \in DOMAIN cache'
       /\ ((LastWrite("denied") \/ LastWrite("cut"))
              /\ (DiskRefresh("ok")
                     \/ \E m \in Milestones, id \in CallIds : DiskMarkSent(m, id, "ok")))
             => StoreHolds(store', cache')]_vars

\* A MarkSent24h whose write was refused: the cache has the flag, the file
\* still has the record without it.
C22_Witness ==
    /\ LastCall("MarkSent") /\ LastWrite("denied")
    /\ store.state = "json"
    /\ \E id \in DOMAIN cache :
          /\ cache[id].sent_24h
          /\ \E o \in store.objects : o.id = id /\ ~o.sent_24h

\* C23 - Load at startup is best-effort: NewAggregator returns whatever the
\* file, and with a file that is missing or does not parse the cache is
\* empty, whatever objects the broken file holds.
C23_LoadBestEffort ==
    LastCall("NewAggregator") =>
        /\ output.done
        /\ store.state # "json" => DOMAIN cache = {}

\* A start on the file a cut write left behind, with a flagged record in
\* what remains of it.
C23_Witness ==
    /\ LastCall("NewAggregator")
    /\ store.state = "corrupt"
    /\ \E o \in store.objects : o.sent_24h
    /\ DOMAIN cache = {}

\* C24 - Durable round-trip: a new Aggregator started on the file the last
\* write stored has the cache that was saved: the same ids and for each the
\* same fields and the same three flags.
C24_RoundTrip ==
    [][(Restart /\ LastWrite("ok")) => cache' = cache]_vars

\* A start that loaded two entries, one with the 2h flag: every JSON file of
\* this run was written by saveCache.
C24_Witness ==
    /\ LastCall("NewAggregator")
    /\ store.state = "json"
    /\ Cardinality(DOMAIN cache) = 2
    /\ \E id \in DOMAIN cache : cache[id].sent_2h /\ cache[id].sent_digest

\* In the claims' vocabulary: g has passed the Lock of its call and has not
\* returned, and g is at the first statement after its Lock.
Inside(g) ==
    \E k \in 1..(proc[g].pc - 1) : Body(proc[g].op)[k] = "lock"
Entering(g) ==
    /\ Inside(g)
    /\ Body(proc[g].op)[proc[g].pc - 1] = "lock"

\* C25 - Atomic critical sections: at most one goroutine is between the
\* Lock and the return of a Refresh merge, a MarkSent* or an Events(); what
\* a goroutine finds on entering its section, an Events() snapshot
\* included, and what the cache and the file hold when nobody is in one, is
\* the result of the completed calls run one after the other.
C25_AtomicSections ==
    /\ Cardinality({g \in Goroutines : Inside(g)}) <= 1
    /\ \A g \in Goroutines : Entering(g) => cache = serial
    /\ (\A g \in Goroutines : ~Inside(g)) =>
          (cache = serial /\ StoreHolds(store, cache))

\* A Refresh has upserted its winner and not yet deleted the loser, so the
\* cache holds two entries of one key, while an Events() call waits for the
\* lock.
C25_Witness ==
    \E g, h \in Goroutines :
        /\ At(g, "losers")
        /\ At(h, "lock") /\ proc[h].op = "Events"
        /\ \E a, b \in DOMAIN cache :
              a # b /\ ClaimKey(cache[a]) = ClaimKey(cache[b])
        /\ cache # serial

\* C26 - The lock is not held across adapter calls: a Refresh that is still
\* waiting for its adapters does not hold the mutex, so a goroutine at the
\* Lock of an Events(), a MarkSent* or another Refresh's merge is never kept
\* out by it.
C26_LockNotHeldWhileScanning ==
    \A g \in Goroutines :
        At(g, "scan") =>
            /\ mu # g
            /\ ~Inside(g)
            /\ \A h \in Goroutines \ {g} : At(h, "lock") => ENABLED LockStep(h)

\* One Refresh waits for its adapters while another is in the middle of its
\* merge, between the upsert and the loser deletion, holding the lock.
C26_Witness ==
    \E g, h \in Goroutines :
        /\ At(g, "scan")
        /\ proc[h].op = "Refresh" /\ At(h, "losers")
        /\ mu = h
        /\ cache # serial

\* The first input position of a set of positions.
FirstOf(positions) == CHOOSE i \in positions : \A j \in positions : i <= j

\* C31 - Deterministic reconciler ordering: the winners are listed in the
\* order in which their keys first appear in the input, and in a group where
\* several members share the lowest priority number the winner is the first
\* of them in input order.
C31_ReconcilerOrder ==
    output.done =>
        /\ \A a, b \in 1..Len(output.events) :
              a < b => FirstOf(InputGroup(ClaimKey(output.events[a])))
                          < FirstOf(InputGroup(ClaimKey(output.events[b])))
        /\ \A j \in 1..Len(output.events) :
              LET g == InputGroup(ClaimKey(output.events[j]))
                  best == {i \in g : \A i2 \in g :
                              ClaimRank(input[i].source) <= ClaimRank(input[i2].source)}
              IN SameFields(output.events[j], input[FirstOf(best)])

\* The later day's record comes first, then two records of one source on
\* the earlier day at different hours: the output keeps that order of days
\* and, for the tie, the hour of the second input.
C31_Witness ==
    /\ output.done
    /\ Len(input) = 3
    /\ input[1].date > input[2].date
    /\ ClaimKey(input[1]) # ClaimKey(input[2])
    /\ ClaimKey(input[2]) = ClaimKey(input[3])
    /\ input[2].source = input[3].source
    /\ input[2].date # input[3].date
    /\ Len(output.events) = 2
    /\ output.events[1].date = input[1].date
    /\ output.events[2].date = input[2].date

\* C32 - The reconciler changes nothing but flags: every output record has
\* the id, type, source, token and date of one member of its input group, a
\* group of one member is output as it is, flags included, and the input
\* list is left as it was.
C32_OnlyFlagsChange ==
    [][Reconcile =>
          /\ input' = input
          /\ \A j \in 1..Len(output'.events) :
                LET g == InputGroup(ClaimKey(output'.events[j]))
                IN /\ \E i \in g : SameFields(output'.events[j], input[i])
                   /\ Cardinality(g) = 1 =>
                         \A i \in g : output'.events[j] = input[i]]_vars

\* A record alone in its group next to a group of two sources whose loser
\* arrives first, at another hour than the winner, and is the one flagged.
C32_Witness ==
    /\ output.done
    /\ Len(input) = 3
    /\ Len(output.events) = 2
    /\ ClaimKey(input[1]) = ClaimKey(input[2])
    /\ ClaimRank(input[2].source) < ClaimRank(input[1].source)
    /\ input[1].date # input[2].date
    /\ input[1].sent_24h
    /\ output.events[1].date = input[2].date
    /\ output.events[1].sent_24h
    /\ output.events[2] = input[3]

\* C37 - Reconciliation is idempotent: reconciling the output of a
\* reconciliation gives that output again, the same records with the same
\* flags in the same order.
C37_Idempotent ==
    output.done => deduplicateCrossSource(output.events) = output.events

\* A first pass that did something: two groups, and a winner that is none
\* of the input records because it took a flag from a loser.
C37_Witness ==
    /\ output.done
    /\ Len(input) = 3
    /\ Len(output.events) = 2
    /\ \E j \in 1..2 : \A i \in 1..3 : output.events[j] # input[i]

\* C38 - Events() is deterministic as a set: when the cached entries of one
\* key come from sources of pairwise different priority, the records
\* Events() returns (ids, fields, flags) are the same set for every
\* iteration order of the map.
C38_EventsSetDeterministic ==
    [][CallEvents =>
          ((\A a, b \in DOMAIN cache :
                (a # b /\ ClaimKey(cache[a]) = ClaimKey(cache[b]))
                    => ClaimRank(cache[a].source) # ClaimRank(cache[b].source))
           => \A order \in AllEventsOrders(cache) :
                 Range(deduplicateCrossSource(order)) = Range(output'.events))]_vars

\* Events() returned one record for two cached entries of one key, with the
\* digest flag of the one and the 2h flag of the other.
C38_Witness ==
    /\ LastCall("Events")
    /\ Len(output.events) = 1
    /\ output.events[1].sent_digest /\ output.events[1].sent_2h
    /\ \E a, b \in DOMAIN cache :
          /\ a # b
          /\ ClaimKey(cache[a]) = ClaimKey(cache[b])
          /\ cache[a].sent_digest /\ ~cache[a].sent_2h
          /\ cache[b].sent_2h /\ ~cache[b].sent_digest

\* C36 - Every fresh winner is stored: after a Refresh the cache holds, for
\* each winner of the reconciled batch not older than 48 h, a record with the
\* winner's (token, UTC day, type), also when two winners of one source,
\* token and UTC day differ in type.
C36_WinnersStored ==
    [][ReceiveAndMerge =>
          \A j \in Merged(fresh') :
              fresh'[j].date >= now - 48 * 60 =>
                  \E id \in DOMAIN cache' :
                      ClaimKey(cache'[id]) = ClaimKey(fresh'[j])]_vars

\* C34 - All-or-nothing digest marking: checkDigest sends one message for
\* the whole selection.  Either the send failed and no record is marked (the
\* cache, and with it the next selection, is as before), or it succeeded and
\* MarkSentDigest was called for the id of every selected record, so that
\* each of them carries sent_digest.
C34_DigestAllOrNothing ==
    [][DigestCycle(FALSE, TRUE) =>
          \E view \in EventsViews(cache) :
              LET events == EventsForDigest(view, now)
                  ids == {events[i].id : i \in 1..Len(events)}
              IN \/ /\ cache' = cache
                    /\ marked' = marked
                 \/ /\ cache' = [id \in DOMAIN cache |->
                                   IF id \in ids
                                   THEN [cache[id] EXCEPT !.sent_digest = TRUE]
                                   ELSE cache[id]]
                    /\ marked' = marked \cup {<<id, "digest">> : id \in ids}]_vars

\* A digest of two records was delivered and both were marked.
C34_Witness ==
    \E a, b \in DOMAIN cache :
        /\ a # b
        /\ <<a, "digest">> \in marked /\ <<b, "digest">> \in marked
        /\ cache[a].sent_digest /\ cache[b].sent_digest
        /\ \A m \in {"24h", "2h"} : <<a, m>> \notin marked /\ <<b, m>> \notin marked

\* C33 - Refresh joins its workers: it starts exactly one worker per
\* configured adapter; the merge starts only when one result of each worker
\* has been received, the batch being their concatenation in arrival order;
\* no result is left behind in the channel, which never holds more than its
\* capacity, so no worker blocks on its send; and if every scan returns, a
\* Refresh that was called returns.
C33_RefreshJoinsWorkers ==
    /\ [][RefreshStart =>
             /\ DOMAIN scan' = 1..NumScanners
             /\ \A i \in 1..NumScanners : scan'[i].st = "running"]_vars
    /\ [][RefreshMerge =>
             /\ ch = <<>>
             /\ \A i \in 1..NumScanners : scan[i].st = "sent"
             /\ \E order \in Bijections(NumScanners, 1..NumScanners) :
                   fresh = Collect([i \in 1..NumScanners |->
                                       WorkerResult(scan[i].evs, scan[i].err)],
                                   order)]_vars
    /\ [](Len(ch) <= NumScanners)
    /\ [](rpc = "idle" => ch = <<>>)
    /\ (rpc # "idle") ~>
           (rpc = "idle" \/ \E i \in 1..NumScanners : scan[i].st = "hung")

\* Refresh has returned with a batch of two records: the second worker's
\* result arrived first, the first worker's after its sub-deadline.
C33_Witness ==
    /\ rpc = "idle" /\ ch = <<>>
    /\ \A i \in 1..NumScanners : scan[i].st = "sent" /\ ~scan[i].err
    /\ scan[1].expired
    /\ scan[1].evs # <<>> /\ scan[2].evs # <<>>
    /\ fresh = scan[2].evs \o scan[1].evs

\* C35 - A flag mark racing a Refresh is not lost: when MarkSentX(id) has
\* returned while a Refresh was under way whose reconciled batch holds a
\* winner with that id, not older than 48 h, then at the return of that
\* Refresh the cache record with that id has sent_X set.
C35_RacingMarkKept ==
    [][\A g \in Goroutines :
          (proc[g].op = "Refresh" /\ SaveStep(g)) =>
              \A p \in marked :
                  \A j \in 1..Len(proc[g].arg) :
                      (/\ proc[g].arg[j].id = p[1]
                       /\ proc[g].arg[j].date >= now - 48 * 60)
                          => /\ p[1] \in DOMAIN cache'
                             /\ Flag(cache'[p[1]], p[2])]_vars

====
